---- MODULE Spec2Model ----
(***************************************************************************)
(* Model of pip-services3-couchbase-node:                                  *)
(*   - CouchbaseConnectionResolver (connect/CouchbaseConnectionResolver)   *)
(*   - CouchbasePersistence / IdentifiableCouchbasePersistence working on  *)
(*     one physical bucket shared by several logical collections.          *)
(***************************************************************************)
EXTENDS Integers, Sequences, FiniteSets, TLC

\* JavaScript null / undefined ("absent").
NULL == "<null>"

(***************************************************************************)
(* Part 1: CouchbaseConnectionResolver                                     *)
(***************************************************************************)

\* Largest number of connection entries of a configuration.
MaxConns == 2

\* Extra (non-consumed) keys of a connection entry: an ordered list of
\* <<key, value>> pairs, as the keys of a ConfigParams enumerate.
ConnExtras ==
    { <<>>,
      << <<"operation_timeout", "2">> >>,
      << <<"operation_timeout", "5">> >>,
      << <<"detailed_errcodes", NULL>> >> }

\* Entries that pass validation through host and port.
HostEntries ==
    [uri : {NULL}, host : {"host1", "host2"}, port : {"8091"},
     database : {NULL, "test", "db2"}, extra : ConnExtras]

\* Entries without uri that lack a host or a port (port "0" or unset).
BrokenEntries ==
    { e \in [uri : {NULL}, host : {NULL, "host1"}, port : {NULL, "0", "8091"},
             database : {NULL}, extra : {<<>>}] :
        e.host = NULL \/ e.port # "8091" }

\* Entries with an explicit uri (possibly the empty string).
UriEntries ==
    { e \in [uri : {"", "couchbase://u1/b1", "couchbase://u2/b2"},
             host : {NULL, "host1"}, port : {NULL, "8091"},
             database : {NULL}, extra : {<<>>}] :
        (e.host = NULL) <=> (e.port = NULL) }

Entries == HostEntries \cup BrokenEntries \cup UriEntries

\* credential == null when no credential section is configured.
NoCredential == [present |-> FALSE, username |-> NULL, password |-> NULL, extra |-> <<>>]

Credentials ==
    {NoCredential} \cup
    [present : {TRUE}, username : {NULL, "admin"}, password : {NULL, "password123"},
     extra : {<<>>, << <<"store_key", "key1">> >>}]

\* All sequences over S of length 0..n.
SeqUpTo(S, n) == UNION { [1..k -> S] : k \in 0..n }

VARIABLES
    rpc,          \* resolver: "idle", "configured", "resolving", "done"
    rconfig,      \* configured connection entries (ConnectionResolver)
    rcredcfg,     \* configured credential (CredentialResolver)
    rtasks,       \* async.parallel tasks of resolve() that have called back
    connections,  \* local of resolve(): result of resolveAll
    credential,   \* local of resolve(): result of lookup
    rresult       \* what resolve() passed to its callback

rvars == <<rpc, rconfig, rcredcfg, rtasks, connections, credential, rresult>>

VARIABLES
    bucket,       \* the physical bucket: storage key -> stored document
    nextCas,      \* the compare-and-swap token the next mutation is stamped with
    calls,        \* operations in flight between two driver calls
    last,         \* the last callback an operation made, with what it saw
    ops           \* operations started so far

storeVars == <<bucket, nextCas, calls, last, ops>>

VARIABLES
    connObj,      \* the Store Connections: options, cluster and bucket handles
    opening,      \* CouchbaseConnection.open() calls in flight
    pconn,        \* persistence: _connection (the Connection it refers to)
    plocal,       \* persistence: _localConnection
    popened,      \* persistence: _opened
    phandles,     \* persistence: _cluster, _bucket, _query
    pconfig,      \* persistence: _config (the options it was configured with)
    popenOk,      \* history: an open() of the persistence called back with
                  \* no error and close() was not called since
    plast,        \* the last callback of the persistence's open() / close()
    clast,        \* the last callback of a Connection's open() / close()
    lops          \* lifecycle calls made so far

lifeVars == <<connObj, opening, pconn, plocal, popened, phandles, pconfig,
              popenOk, plast, clast, lops>>

vars == <<rvars, storeVars, lifeVars>>

\* ConnectionParams.getUri / getHost
getUri(c) == c.uri
getHost(c) == c.host

\* ConnectionParams.getPort: getAsInteger("port"), 0 when unset or not a number.
getPort(c) ==
    CASE c.port = "8091" -> 8091
      [] c.port = "0" -> 0
      [] OTHER -> 0

NoError == "<none>"

\* A mutant of validateConnections: only the first entry is validated.
validateFirstOnly(conns) ==
    IF Len(conns) = 0 THEN "NO_CONNECTION"
    ELSE IF getUri(conns[1]) # NULL THEN NoError
    ELSE IF getHost(conns[1]) = NULL THEN "NO_HOST"
    ELSE IF getPort(conns[1]) = 0 THEN "NO_PORT"
    ELSE NoError

validateConnection(c) ==
    IF getUri(c) # NULL THEN NoError
    ELSE IF getHost(c) = NULL THEN "NO_HOST"
    ELSE IF getPort(c) = 0 THEN "NO_PORT"
    ELSE NoError

RECURSIVE firstError(_, _)
firstError(conns, i) ==
    IF i > Len(conns) THEN NoError
    ELSE IF validateConnection(conns[i]) # NoError THEN validateConnection(conns[i])
    ELSE firstError(conns, i + 1)

validateConnections(conns) ==
    IF Len(conns) = 0 THEN "NO_CONNECTION"
    ELSE firstError(conns, 1)

\* JavaScript truthiness of a nullable string.
Truthy(s) == s # NULL /\ s # ""

\* String(x) as '+' applies it to a nullable string.
Str(s) == IF s = NULL THEN "null" ELSE s

\* The first uri of the entries that is truthy, NULL when none is
\* (the loop leaves result.uri at the last value read, which the code
\* overwrites below when it is not truthy).
RECURSIVE firstUri(_, _)
firstUri(conns, i) ==
    IF i > Len(conns) THEN NULL
    ELSE IF Truthy(getUri(conns[i])) THEN getUri(conns[i])
    ELSE firstUri(conns, i + 1)

RECURSIVE hostList(_, _)
hostList(conns, i) ==
    IF i > Len(conns) THEN ""
    ELSE (IF i > 1 THEN "," ELSE "")
         \o Str(getHost(conns[i])) \o ":" \o ToString(getPort(conns[i]))
         \o hostList(conns, i + 1)

\* A mutant of firstDatabase: a later entry's database wins.
RECURSIVE lastDatabase(_, _)
lastDatabase(conns, i) ==
    IF i > Len(conns) THEN ""
    ELSE IF lastDatabase(conns, i + 1) # "" THEN lastDatabase(conns, i + 1)
    ELSE IF Truthy(conns[i].database) THEN conns[i].database
    ELSE ""

RECURSIVE firstDatabase(_, _)
firstDatabase(conns, i) ==
    IF i > Len(conns) THEN ""
    ELSE IF Truthy(conns[i].database) THEN conns[i].database
    ELSE firstDatabase(conns, i + 1)

\* A mutant of putKey: a known key keeps its first value.
putKeyKeep(pairs, kv) ==
    IF \E i \in 1..Len(pairs) : pairs[i][1] = kv[1] THEN pairs
    ELSE Append(pairs, kv)

\* StringValueMap.append of one key: a known key keeps its place and takes
\* the new value, a new key goes last.
putKey(pairs, kv) ==
    IF \E i \in 1..Len(pairs) : pairs[i][1] = kv[1]
    THEN [i \in 1..Len(pairs) |-> IF pairs[i][1] = kv[1] THEN kv ELSE pairs[i]]
    ELSE Append(pairs, kv)

RECURSIVE appendMap(_, _, _)
appendMap(pairs, more, i) ==
    IF i > Len(more) THEN pairs
    ELSE appendMap(putKey(pairs, more[i]), more, i + 1)

RECURSIVE mergeConfigs(_, _)
mergeConfigs(conns, i) ==
    IF i = 0 THEN <<>>
    ELSE appendMap(mergeConfigs(conns, i - 1), conns[i].extra, 1)

\* options: mergeConfigs(...connections).override(credential) with the six
\* consumed keys removed.
optionsOf(conns, cred) == appendMap(mergeConfigs(conns, Len(conns)), cred.extra, 1)

RECURSIVE paramString(_, _)
paramString(opts, i) ==
    IF i > Len(opts) THEN ""
    ELSE (IF i > 1 THEN "&" ELSE "")
         \o opts[i][1]
         \o (IF opts[i][2] # NULL THEN "=" \o opts[i][2] ELSE "")
         \o paramString(opts, i + 1)

composeUri(conns, cred) ==
    LET hosts == hostList(conns, 1)
        db == firstDatabase(conns, 1)
        database == IF Len(db) > 0 THEN "/" \o db ELSE db
        ps == paramString(optionsOf(conns, cred), 1)
        params == IF Len(ps) > 0 THEN "?" \o ps ELSE ps
    IN "couchbase://" \o hosts \o database \o params

\* A mutant of composeCredential: the password is attached whenever one is set.
composeCredentialAlways(cred) ==
    [username |-> cred.username, password |-> cred.password]

composeCredential(cred) ==
    IF cred.present
    THEN [username |-> cred.username,
          password |-> IF Truthy(cred.username) THEN cred.password ELSE NULL]
    ELSE [username |-> NULL, password |-> NULL]

composeConnection(conns, cred) ==
    LET c == composeCredential(cred)
        u == firstUri(conns, 1)
    IN [uri |-> IF u # NULL THEN u ELSE composeUri(conns, cred),
        username |-> c.username,
        password |-> c.password]

NoConnection == [uri |-> NULL, username |-> NULL, password |-> NULL]
NoResult == [called |-> FALSE, err |-> NoError, connection |-> NoConnection]

RInit ==
    /\ rpc = "idle"
    /\ rconfig = <<>>
    /\ rcredcfg = NoCredential
    /\ rtasks = {}
    /\ connections = <<>>
    /\ credential = NoCredential
    /\ rresult = NoResult

\* configure(config)
Configure ==
    /\ rpc = "idle"
    /\ \E cs \in SeqUpTo(Entries, MaxConns), cr \in Credentials :
        /\ rconfig' = cs
        /\ rcredcfg' = cr
    /\ rpc' = "configured"
    /\ UNCHANGED <<rtasks, connections, credential, rresult>>
    /\ UNCHANGED <<storeVars, lifeVars>>

\* resolve(correlationId, callback): starts the two tasks of async.parallel.
Resolve ==
    /\ rpc = "configured"
    /\ rpc' = "resolving"
    /\ UNCHANGED <<rconfig, rcredcfg, rtasks, connections, credential, rresult>>
    /\ UNCHANGED <<storeVars, lifeVars>>

\* The final callback of async.parallel: called once, on the first task
\* error or when both tasks have called back.
finish(err, tasks, conns, cred) ==
    IF rresult.called THEN rresult
    ELSE IF err # NoError
    THEN [called |-> TRUE, err |-> err, connection |-> NoConnection]
    ELSE IF tasks = {"connections", "credential"}
    THEN [called |-> TRUE, err |-> NoError, connection |-> composeConnection(conns, cred)]
    ELSE rresult

\* Callback of _connectionResolver.resolveAll; lookupFailed is the outcome of
\* the discovery lookup of the components library.
ResolveAllDone ==
    /\ rpc = "resolving"
    /\ "connections" \notin rtasks
    /\ \E lookupFailed \in BOOLEAN :
        LET err == IF lookupFailed THEN "DISCOVERY_FAILED" ELSE validateConnections(rconfig)
        IN /\ connections' = IF lookupFailed THEN <<>> ELSE rconfig
           /\ rtasks' = rtasks \cup {"connections"}
           /\ rresult' = finish(err, rtasks', connections', credential)
    /\ rpc' = IF rtasks' = {"connections", "credential"} THEN "done" ELSE rpc
    /\ UNCHANGED <<rconfig, rcredcfg, credential>>
    /\ UNCHANGED <<storeVars, lifeVars>>

\* Callback of _credentialResolver.lookup; lookupFailed is the outcome of the
\* credential store lookup of the components library.
LookupDone ==
    /\ rpc = "resolving"
    /\ "credential" \notin rtasks
    /\ \E lookupFailed \in BOOLEAN :
        LET err == IF lookupFailed THEN "STORE_FAILED" ELSE NoError
        IN /\ credential' = IF lookupFailed THEN NoCredential ELSE rcredcfg
           /\ rtasks' = rtasks \cup {"credential"}
           /\ rresult' = finish(err, rtasks', connections, credential')
    /\ rpc' = IF rtasks' = {"connections", "credential"} THEN "done" ELSE rpc
    /\ UNCHANGED <<rconfig, rcredcfg, connections>>
    /\ UNCHANGED <<storeVars, lifeVars>>

RNext == Configure \/ Resolve \/ ResolveAllDone \/ LookupDone

(***************************************************************************)
(* Claims about the resolver (checked under SpecResolver)                  *)
(***************************************************************************)

\* resolve() has called back and neither lookup of the components library
\* (discovery, credential store) failed.
Resolved ==
    /\ rresult.called
    /\ rresult.err \notin {"DISCOVERY_FAILED", "STORE_FAILED"}

ConfigErrors == {"NO_CONNECTION", "NO_HOST", "NO_PORT"}

\* An entry defines a uri when its uri is a non-empty string.
DefinesUri(e) == e.uri # NULL /\ e.uri # ""

LacksHostOrPort(e) == e.host = NULL \/ e.port \in {NULL, "0"}

\* An entry that defines no uri and lacks a host or a port.
Incomplete(e) == ~DefinesUri(e) /\ LacksHostOrPort(e)

\* An entry whose uri is unset (not even the empty string) and that lacks a
\* host or a port.
UnsetAndIncomplete(e) == e.uri = NULL /\ LacksHostOrPort(e)

\* N >= 1 entries, none with a uri, each with a host and a non-zero port.
HostsOnly(cs) ==
    /\ Len(cs) >= 1
    /\ \A i \in 1..Len(cs) : ~DefinesUri(cs[i]) /\ ~LacksHostOrPort(cs[i])

RECURSIVE JoinedHosts(_)
JoinedHosts(cs) ==
    IF Len(cs) = 1 THEN cs[1].host \o ":" \o cs[1].port
    ELSE JoinedHosts(SubSeq(cs, 1, Len(cs) - 1))
         \o "," \o cs[Len(cs)].host \o ":" \o cs[Len(cs)].port

DatabaseSegment(cs) ==
    IF \E i \in 1..Len(cs) : cs[i].database # NULL
    THEN "/" \o cs[CHOOSE i \in 1..Len(cs) :
                      /\ cs[i].database # NULL
                      /\ \A j \in 1..(i - 1) : cs[j].database = NULL].database
    ELSE ""

SynthesizedUri(cs) == "couchbase://" \o JoinedHosts(cs) \o DatabaseSegment(cs)

\* No entry and no credential carries a key other than the six consumed ones.
NoLeftoverKeys ==
    /\ \A i \in 1..Len(rconfig) : rconfig[i].extra = <<>>
    /\ rcredcfg.extra = <<>>

\* C1 as stated: with host entries only, the resolved uri is
\* "couchbase://" + host:port pairs joined by "," + "/" + first database.
C1_Original ==
    (Resolved /\ HostsOnly(rconfig)) =>
        /\ rresult.err = NoError
        /\ rresult.connection.uri = SynthesizedUri(rconfig)

\* C1 as amended: the resolved uri starts with that string; it is exactly
\* that string when no entry and no credential carries other keys, and
\* otherwise goes on with "?" and a query string.
C1_SynthesizedUri ==
    (Resolved /\ HostsOnly(rconfig)) =>
        /\ rresult.err = NoError
        /\ LET u == rresult.connection.uri
               e == SynthesizedUri(rconfig)
           IN IF NoLeftoverKeys THEN u = e
              ELSE /\ Len(u) > Len(e) + 1
                   /\ SubSeq(u, 1, Len(e)) = e
                   /\ SubSeq(u, Len(e) + 1, Len(e) + 1) = "?"

C1_Witness ==
    /\ Resolved
    /\ Len(rconfig) = 2
    /\ rconfig[1].host = "host1" /\ rconfig[2].host = "host2"
    /\ rconfig[1].database = NULL /\ rconfig[2].database = "test"
    /\ rresult.connection.uri = "couchbase://host1:8091,host2:8091/test"

AnyUri(cs) == \E i \in 1..Len(cs) : DefinesUri(cs[i])

FirstUri(cs) ==
    cs[CHOOSE i \in 1..Len(cs) :
          /\ DefinesUri(cs[i])
          /\ \A j \in 1..(i - 1) : ~DefinesUri(cs[j])].uri

\* C2 as stated: when an entry defines a uri, resolve() succeeds with the
\* first such uri, whatever the other entries contain.
C2_Original ==
    (Resolved /\ AnyUri(rconfig)) =>
        /\ rresult.err = NoError
        /\ rresult.connection.uri = FirstUri(rconfig)

\* C2 as amended: when an entry defines a uri, resolve() succeeds with the
\* first such uri unless some entry whose uri is unset lacks its host or its
\* port; in that case resolve() fails with the configuration error, whatever
\* uri another entry defines.
C2_ExplicitUri ==
    (Resolved /\ AnyUri(rconfig)) =>
        IF \E i \in 1..Len(rconfig) : UnsetAndIncomplete(rconfig[i])
        THEN rresult.err \in {"NO_HOST", "NO_PORT"} /\ rresult.connection = NoConnection
        ELSE rresult.err = NoError /\ rresult.connection.uri = FirstUri(rconfig)

C2_Witness ==
    /\ Resolved
    /\ Len(rconfig) = 2
    /\ rconfig[1].uri = NULL /\ rconfig[1].host = "host1" /\ rconfig[1].port = "8091"
    /\ rconfig[2].uri = "couchbase://u2/b2"
    /\ rresult.connection.uri = "couchbase://u2/b2"

C4_Credentials ==
    (Resolved /\ rresult.err = NoError) =>
        IF rcredcfg.present /\ rcredcfg.username # NULL
        THEN /\ rresult.connection.username = rcredcfg.username
             /\ rresult.connection.password = rcredcfg.password
        ELSE /\ rresult.connection.username = NULL
             /\ rresult.connection.password = NULL

C4_Witness ==
    /\ Resolved
    /\ rresult.err = NoError
    /\ AnyUri(rconfig)
    /\ rcredcfg.present /\ rcredcfg.username = NULL /\ rcredcfg.password = "password123"
    /\ rresult.connection.password = NULL

\* The leftover <<key, value>> pairs of the first n entries, entry by entry.
RECURSIVE EntryPairs(_, _)
EntryPairs(cs, n) ==
    IF n = 0 THEN <<>> ELSE EntryPairs(cs, n - 1) \o cs[n].extra

\* The positions of a list of pairs at which a key occurs for the first time.
FirstAt(pairs) ==
    { i \in 1..Len(pairs) : \A j \in 1..(i - 1) : pairs[j][1] # pairs[i][1] }

\* The values a key carries in a list of pairs, and the last one of them.
ValuesOf(pairs, k) == { pairs[i][2] : i \in { j \in 1..Len(pairs) : pairs[j][1] = k } }
LastValueOf(pairs, k) ==
    pairs[CHOOSE i \in 1..Len(pairs) :
             /\ pairs[i][1] = k
             /\ \A j \in (i + 1)..Len(pairs) : pairs[j][1] # k][2]

\* key[=value] of the pairs at the positions P from position i on, joined
\* by "&", with the value val(k) for the key k.
RECURSIVE Joined(_, _, _, _)
Joined(pairs, P, val, i) ==
    IF i > Len(pairs) THEN ""
    ELSE IF i \notin P THEN Joined(pairs, P, val, i + 1)
    ELSE (IF \E j \in P : j < i THEN "&" ELSE "")
         \o pairs[i][1]
         \o (IF val[pairs[i][1]] # NULL THEN "=" \o val[pairs[i][1]] ELSE "")
         \o Joined(pairs, P, val, i + 1)

\* The uri made of the synthesized part and the query string of the pairs.
WithQuery(cs, pairs, val) ==
    SynthesizedUri(cs)
    \o (IF pairs = <<>> THEN "" ELSE "?" \o Joined(pairs, FirstAt(pairs), val, 1))

KeysOf(pairs) == { pairs[i][1] : i \in 1..Len(pairs) }

MaxCalls == 2

\* Operations a behaviour starts.
MaxOps == 3

\* _maxPageSize
maxPageSize == 100

\* The logical collections (one persistence each) bound to the bucket.
Collections == {"user", "users"}

\* Record ids the callers use.
Ids == {"1", "s1"}

\* Public records handed to create / set / update; id NULL is "no id yet".
Items ==
    [id : Ids, key : {"k1", "k2"}, content : {"x"}]
    \cup {[id |-> NULL, key |-> "k1", content |-> "x"]}

\* Field maps handed to updatePartially (AnyValueMap.getAsObject()).
FieldMaps == { [f \in {"key"} |-> "k2"], [f \in {"content"} |-> "y"] }

\* Caller filters of the query primitives: none, or key='<value>'.
Filters == {NULL, "k1"}

\* Paging parameters: skip and take (<<>>: not given) and total.
Pagings ==
    { [skip |-> <<>>, take |-> <<>>, total |-> FALSE],
      [skip |-> <<0>>, take |-> <<1>>, total |-> TRUE],
      [skip |-> <<1>>, take |-> <<>>, total |-> TRUE] }

\* Driver error codes: 13 (key not found), 12 (key exists / cas mismatch),
\* and any other failure.
KEY_ENOENT == "KEY_ENOENT"
KEY_EEXISTS == "KEY_EEXISTS"
DRIVER_ERROR == "DRIVER_ERROR"

\* CouchbasePersistence.generateBucketId
generateBucketId(c, id) == c \o id

\* A mutant of convertToPublic: the collection marker is left in.
convertToPublicKeepMarker(value) == value

\* IdentifiableCouchbasePersistence.convertToPublic: delete value._c
convertToPublic(value) == [f \in DOMAIN value \ {"_c"} |-> value[f]]

\* IdentifiableCouchbasePersistence.convertFromPublic: clone, value._c = collection
convertFromPublic(c, value) ==
    [f \in DOMAIN value \cup {"_c"} |-> IF f = "_c" THEN c ELSE value[f]]

\* IdentifiableCouchbasePersistence.convertFromPublicPartial
convertFromPublicPartial(c, value) == convertFromPublic(c, value)

\* _.assign(target, source)
assign(target, source) ==
    [f \in DOMAIN target \cup DOMAIN source |->
        IF f \in DOMAIN source THEN source[f] ELSE target[f]]

\* A nullable value: <<>> is null, <<v>> is v.
None == <<>>
Some(v) == <<v>>

\* What the bucket holds under key k.
stored(k) == IF k \in DOMAIN bucket THEN Some(bucket[k]) ELSE None

\* A stored document: its JSON value and its compare-and-swap token; via and
\* by are history: the collection and the operation (create, set or update)
\* that wrote the document.
Doc(value, via, by) == [value |-> value, cas |-> nextCas, via |-> via, by |-> by]

putDoc(k, doc) == [x \in DOMAIN bucket \cup {k} |-> IF x = k THEN doc ELSE bucket[x]]
dropDoc(k) == [x \in DOMAIN bucket \ {k} |-> bucket[x]]

\* bucket.get(key): key not found is error 13.
drvGet(k, fail) ==
    IF fail THEN [err |-> DRIVER_ERROR, result |-> None]
    ELSE IF k \notin DOMAIN bucket THEN [err |-> KEY_ENOENT, result |-> None]
    ELSE [err |-> NoError, result |-> Some(bucket[k])]

\* bucket.upsert(key, value)
drvUpsert(k, doc, fail) ==
    IF fail THEN [err |-> DRIVER_ERROR, b |-> bucket]
    ELSE [err |-> NoError, b |-> putDoc(k, doc)]

\* A mutant of drvInsert: an existing key is overwritten.
insertOverwrites(k, doc, fail) == drvUpsert(k, doc, fail)

\* bucket.insert(key, value): fails when the key exists.
drvInsert(k, doc, fail) ==
    IF fail THEN [err |-> DRIVER_ERROR, b |-> bucket]
    ELSE IF k \in DOMAIN bucket THEN [err |-> KEY_EEXISTS, b |-> bucket]
    ELSE [err |-> NoError, b |-> putDoc(k, doc)]

\* bucket.replace(key, value): fails when the key does not exist.
drvReplace(k, doc, fail) ==
    IF fail THEN [err |-> DRIVER_ERROR, b |-> bucket]
    ELSE IF k \notin DOMAIN bucket THEN [err |-> KEY_ENOENT, b |-> bucket]
    ELSE [err |-> NoError, b |-> putDoc(k, doc)]

\* A mutant of replaceWithCas: the token is not passed to the driver.
replaceWithoutCas(k, doc, cas, fail) == drvReplace(k, doc, fail)

\* bucket.replace(key, value, { cas: result.cas }): fails also when the
\* document's token is not the one given.
replaceWithCas(k, doc, cas, fail) ==
    IF fail THEN [err |-> DRIVER_ERROR, b |-> bucket]
    ELSE IF k \notin DOMAIN bucket THEN [err |-> KEY_ENOENT, b |-> bucket]
    ELSE IF bucket[k].cas # cas THEN [err |-> KEY_EEXISTS, b |-> bucket]
    ELSE [err |-> NoError, b |-> putDoc(k, doc)]

\* bucket.remove(key)
drvRemove(k, fail) ==
    IF fail THEN [err |-> DRIVER_ERROR, b |-> bucket]
    ELSE IF k \notin DOMAIN bucket THEN [err |-> KEY_ENOENT, b |-> bucket]
    ELSE [err |-> NoError, b |-> dropDoc(k)]

\* A mutant of ignoreNotFound: the error is passed on as it is.
keepNotFound(err) == err

\* if (err && err.message && err.code == 13) err = null
ignoreNotFound(err) == IF err = KEY_ENOENT THEN NoError ELSE err

Idle == [op |-> "idle"]

\* A callback: the operation, its collection and id, the error and data it
\* passed, and what the operation worked on: arg (the item after its id was
\* assigned, or the field map), seen (what its first driver call read),
\* before (what the key held when its last driver call ran), rows and
\* counted (the documents a data query returned and a count query counted,
\* each as <<key, via>>), total (the count passed on, -1 when none),
\* unsettled (the ids whose driver call had not called back yet) and queries
\* (the statements the operation issued, in order).
Callback(op, c, id, err, data, arg, seen, before) ==
    [op |-> op, c |-> c, id |-> id, err |-> err, data |-> data,
     arg |-> arg, seen |-> seen, before |-> before,
     rows |-> {}, counted |-> {}, total |-> -1, unsettled |-> {}, queries |-> <<>>]

\* A statement handed to bucket.query: SELECT, SELECT COUNT(*) or DELETE, its
\* WHERE clause, OFFSET and LIMIT (-1: none), and whether the driver ran it
\* without error.
Query(kind, where, skip, take, ok) ==
    [kind |-> kind, where |-> where, skip |-> skip, take |-> take, ok |-> ok]

QueryCallback(op, c, err, data, rows, counted, total, arg, queries) ==
    [op |-> op, c |-> c, id |-> NULL, err |-> err, data |-> data,
     arg |-> arg, seen |-> None, before |-> None,
     rows |-> rows, counted |-> counted, total |-> total, unsettled |-> {},
     queries |-> queries]

BatchCallback(op, c, err, ids, unsettled) ==
    [op |-> op, c |-> c, id |-> NULL, err |-> err, data |-> None,
     arg |-> Some(ids), seen |-> None, before |-> None,
     rows |-> {}, counted |-> {}, total |-> -1, unsettled |-> unsettled,
     queries |-> <<>>]

NoCallback == Callback("none", NULL, NULL, NoError, None, None, None, None)

SInit ==
    /\ bucket = << >>
    /\ nextCas = 1
    /\ calls = [i \in 1..MaxCalls |-> Idle]
    /\ last = NoCallback
    /\ ops = 0

\* Whether the driver call of a step fails for a reason of the driver's own
\* (a timeout, a network error).
FailChoices == BOOLEAN

\* The bookkeeping of a step of the persistences: it starts an operation or
\* continues one, and the resolver stands by.
Account(starts) ==
    /\ UNCHANGED <<rvars, lifeVars>>
    /\ starts => ops < MaxOps
    /\ ops' = IF starts THEN ops + 1 ELSE ops

\* The bucket after a driver call; a call that stored or removed consumed a
\* compare-and-swap token.
Commit(b) ==
    /\ bucket' = b
    /\ nextCas' = IF b # bucket THEN nextCas + 1 ELSE nextCas

\* item.id || IdGenerator.nextLong()
GeneratedIds(item) == IF Truthy(item.id) THEN {item.id} ELSE Ids

\* create(correlationId, item, callback)
Create(c) ==
    \E item \in Items, fail \in FailChoices : \E id \in GeneratedIds(item) :
        LET newItem == [item EXCEPT !.id = id]
            objectId == generateBucketId(c, newItem.id)
            value == convertFromPublic(c, newItem)
            r == drvInsert(objectId, Doc(value, c, "create"), fail)
        IN /\ Account(TRUE)
           /\ Commit(r.b)
           /\ last' = Callback("create", c, newItem.id, r.err,
                               IF r.err = NoError
                               THEN Some(convertToPublic(value)) ELSE None,
                               Some(newItem), None, stored(objectId))
           /\ UNCHANGED calls

\* set(correlationId, item, callback)
Set(c) ==
    \E item \in Items, fail \in FailChoices : \E id \in GeneratedIds(item) :
        LET newItem == [item EXCEPT !.id = id]
            objectId == generateBucketId(c, newItem.id)
            value == convertFromPublic(c, newItem)
            r == drvUpsert(objectId, Doc(value, c, "set"), fail)
        IN /\ Account(TRUE)
           /\ Commit(r.b)
           /\ last' = Callback("set", c, newItem.id, r.err,
                               IF r.err = NoError
                               THEN Some(convertToPublic(value)) ELSE None,
                               Some(newItem), None, stored(objectId))
           /\ UNCHANGED calls

\* update(correlationId, item, callback)
Update(c) ==
    \E item \in Items, fail \in FailChoices :
        IF item.id = NULL
        THEN /\ ~fail
             /\ Account(TRUE)
             /\ last' = Callback("update", c, NULL, NoError, None,
                                 Some(item), None, None)
             /\ UNCHANGED <<bucket, nextCas, calls>>
        ELSE LET value == convertFromPublic(c, item)
                 objectId == generateBucketId(c, value["id"])
                 r == drvReplace(objectId, Doc(value, c, "update"), fail)
             IN /\ Account(TRUE)
                /\ Commit(r.b)
                /\ last' = Callback("update", c, item.id, r.err,
                                    IF r.err = NoError
                                    THEN Some(convertToPublic(value)) ELSE None,
                                    Some(item), None, stored(objectId))
                /\ UNCHANGED calls

\* getOneById(correlationId, id, callback)
GetOneById(c) ==
    \E id \in Ids, fail \in FailChoices :
        LET objectId == generateBucketId(c, id)
            r == drvGet(objectId, fail)
            err == ignoreNotFound(r.err)
        IN /\ Account(TRUE)
           /\ last' = Callback("getOneById", c, id, err,
                               IF r.result # None
                               THEN Some(convertToPublic(r.result[1].value)) ELSE None,
                               None, r.result, stored(objectId))
           /\ UNCHANGED <<bucket, nextCas, calls>>

\* The slot a new two-step operation takes: the lowest idle one.
FreeSlot(i) == calls[i] = Idle /\ \A j \in 1..(i - 1) : calls[j] # Idle

\* updatePartially(correlationId, id, data, callback): bucket.get
UpdatePartiallyGet(c) ==
    \E i \in 1..MaxCalls, id \in Ids, data \in FieldMaps, fail \in FailChoices :
        /\ FreeSlot(i)
        /\ Account(TRUE)
        /\ LET newItem == convertFromPublicPartial(c, data)
               objectId == generateBucketId(c, id)
               r == drvGet(objectId, fail)
           IN IF r.err # NoError \/ r.result = None
              THEN /\ last' = Callback("updatePartially", c, id, r.err, None,
                                       Some(data), None, stored(objectId))
                   /\ UNCHANGED calls
              ELSE /\ calls' = [calls EXCEPT ![i] =
                                  [op |-> "updatePartially", c |-> c, id |-> id,
                                   data |-> data, newItem |-> newItem,
                                   objectId |-> objectId, result |-> r.result[1]]]
                   /\ UNCHANGED last
        /\ UNCHANGED <<bucket, nextCas>>

\* updatePartially: bucket.replace(objectId, objectValue, { cas: result.cas })
UpdatePartiallyReplace ==
    \E i \in 1..MaxCalls, fail \in FailChoices :
        /\ calls[i].op = "updatePartially"
        /\ Account(FALSE)
        /\ LET call == calls[i]
               objectValue == assign(call.result.value, call.newItem)
               r == replaceWithCas(call.objectId,
                                   Doc(objectValue, call.result.via, call.result.by),
                                   call.result.cas, fail)
           IN /\ Commit(r.b)
              /\ last' = Callback("updatePartially", call.c, call.id, r.err,
                                  IF r.err = NoError
                                  THEN Some(convertToPublic(objectValue)) ELSE None,
                                  Some(call.data), Some(call.result),
                                  stored(call.objectId))
        /\ calls' = [calls EXCEPT ![i] = Idle]

\* deleteById(correlationId, id, callback): bucket.get
DeleteByIdGet(c) ==
    \E i \in 1..MaxCalls, id \in Ids, fail \in FailChoices :
        /\ FreeSlot(i)
        /\ Account(TRUE)
        /\ LET objectId == generateBucketId(c, id)
               r == drvGet(objectId, fail)
           IN IF r.err # NoError \/ r.result = None
              THEN /\ last' = Callback("deleteById", c, id, r.err, None,
                                       None, None, stored(objectId))
                   /\ UNCHANGED calls
              ELSE /\ calls' = [calls EXCEPT ![i] =
                                  [op |-> "deleteById", c |-> c, id |-> id,
                                   objectId |-> objectId, result |-> r.result[1],
                                   oldItem |-> convertToPublic(r.result[1].value)]]
                   /\ UNCHANGED last
        /\ UNCHANGED <<bucket, nextCas>>

\* deleteById: bucket.remove(objectId)
DeleteByIdRemove ==
    \E i \in 1..MaxCalls, fail \in FailChoices :
        /\ calls[i].op = "deleteById"
        /\ Account(FALSE)
        /\ LET call == calls[i]
               r == drvRemove(call.objectId, fail)
               err == ignoreNotFound(r.err)
           IN /\ Commit(r.b)
              /\ last' = Callback("deleteById", call.c, call.id, err,
                                  IF err = NoError THEN Some(call.oldItem) ELSE None,
                                  None, Some(call.result), stored(call.objectId))
        /\ calls' = [calls EXCEPT ![i] = Idle]

\* deleteByIds(correlationId, ids, callback): async.each issues one
\* bucket.remove per id; with no ids it calls back at once.
DeleteByIdsStart(c) ==
    \E i \in 1..MaxCalls, ids \in SUBSET Ids :
        /\ FreeSlot(i)
        /\ Account(TRUE)
        /\ IF ids = {}
           THEN /\ last' = BatchCallback("deleteByIds", c, NoError, ids, {})
                /\ UNCHANGED calls
           ELSE /\ calls' = [calls EXCEPT ![i] =
                                [op |-> "deleteByIds", c |-> c, ids |-> ids,
                                 pending |-> ids, called |-> FALSE]]
                /\ UNCHANGED last
        /\ UNCHANGED <<bucket, nextCas>>

\* async.each: the final callback is called, once, on the first error an
\* iteratee passes or when every iteratee has called back.
eachDone(err, pending, called) == ~called /\ (err # NoError \/ pending = {})

\* deleteByIds: the callback of one bucket.remove
DeleteByIdsRemove ==
    \E i \in 1..MaxCalls, fail \in FailChoices :
        /\ calls[i].op = "deleteByIds"
        /\ Account(FALSE)
        /\ \E id \in calls[i].pending :
            LET call == calls[i]
                r == drvRemove(generateBucketId(call.c, id), fail)
                err == ignoreNotFound(r.err)
                pending == call.pending \ {id}
                done == eachDone(err, pending, call.called)
            IN /\ Commit(r.b)
               /\ last' = IF done
                          THEN BatchCallback("deleteByIds", call.c, err, call.ids, pending)
                          ELSE last
               /\ calls' = [calls EXCEPT ![i] =
                              IF pending = {} THEN Idle
                              ELSE [call EXCEPT !.pending = pending,
                                                !.called = call.called \/ done]]

\* PagingParams.getSkip(minSkip)
getSkip(paging, minSkip) ==
    IF paging.skip = None THEN minSkip
    ELSE IF paging.skip[1] < minSkip THEN minSkip ELSE paging.skip[1]

\* PagingParams.getTake(maxTake)
getTake(paging, maxTake) ==
    IF paging.take = None THEN maxTake
    ELSE IF paging.take[1] < 0 THEN 0
    ELSE IF paging.take[1] < maxTake THEN paging.take[1] ELSE maxTake

\* A mutant of collectionFilter: the caller's filter alone.
collectionFilterOff(c, filter) == [c |-> None, key |-> filter]

\* "_c='" + this._collectionName + "'" [+ " AND " + filter]: the WHERE
\* clause as the conjunction it denotes.
collectionFilter(c, filter) == [c |-> Some(c), key |-> filter]

\* The documents a WHERE clause selects.
matching(where) ==
    { k \in DOMAIN bucket :
        /\ where.c # None =>
              "_c" \in DOMAIN bucket[k].value /\ bucket[k].value["_c"] = where.c[1]
        /\ where.key # NULL =>
              "key" \in DOMAIN bucket[k].value /\ bucket[k].value["key"] = where.key }

Min(a, b) == IF a < b THEN a ELSE b
Max(a, b) == IF a > b THEN a ELSE b

\* The row sets SELECT ... [OFFSET skip] LIMIT take may return: no ORDER BY
\* is given, so any take of the documents left after the offset.
selections(where, skip, take) ==
    LET all == matching(where)
        n == Min(take, Max(0, Cardinality(all) - Max(skip, 0)))
    IN { R \in SUBSET all : Cardinality(R) = n }

withVia(K) == { <<k, bucket[k].via>> : k \in K }

\* items mapped through convertToPublic, by storage key.
publicRows(R) == [k \in R |-> convertToPublic(bucket[k].value)]

\* A mutant of wantsTotal: the total is always computed.
totalAlways(paging) == TRUE

\* pagingEnabled = paging.total
wantsTotal(paging) == paging.total

\* The data statement of getPageByFilter as the history keeps it: its WHERE
\* clause; OFFSET and LIMIT act in the rows it returns and are not recorded.
PageQuery(where, ok) == Query("select", where, -1, -1, ok)

\* SELECT COUNT(*) ... WHERE filter
CountQuery(where, ok) == Query("count", where, -1, -1, ok)

\* getPageByFilter(correlationId, filter, paging, sort, select, callback):
\* the data query and, when no total is asked for, the callback.
GetPageByFilter(c) ==
    \E i \in 1..MaxCalls, filter \in Filters, paging \in Pagings, fail \in FailChoices :
        /\ FreeSlot(i)
        /\ Account(TRUE)
        /\ LET skip == getSkip(paging, -1)
               take == getTake(paging, maxPageSize)
               where == collectionFilter(c, filter)
               q == PageQuery(where, ~fail)
           IN IF fail
              THEN /\ last' = QueryCallback("getPageByFilter", c, DRIVER_ERROR,
                                            None, {}, {}, -1, Some(paging.total), <<q>>)
                   /\ UNCHANGED calls
              ELSE \E R \in selections(where, skip, take) :
                     IF wantsTotal(paging)
                     THEN /\ calls' = [calls EXCEPT ![i] =
                                  [op |-> "getPageByFilter", c |-> c, where |-> where,
                                   items |-> publicRows(R), rows |-> withVia(R),
                                   asked |-> paging.total, queries |-> <<q>>]]
                          /\ UNCHANGED last
                     ELSE /\ last' = QueryCallback("getPageByFilter", c, NoError,
                                            Some(publicRows(R)), withVia(R), {}, -1,
                                            Some(paging.total), <<q>>)
                          /\ UNCHANGED calls
        /\ UNCHANGED <<bucket, nextCas>>

\* getPageByFilter: the callback of the count query, which the callback of
\* the data query issued.
GetPageByFilterCount ==
    \E i \in 1..MaxCalls, fail \in FailChoices :
        /\ calls[i].op = "getPageByFilter"
        /\ Account(FALSE)
        /\ LET call == calls[i]
               K == matching(call.where)
               qs == Append(call.queries, CountQuery(call.where, ~fail))
           IN last' = IF fail
                      THEN QueryCallback("getPageByFilter", call.c, DRIVER_ERROR,
                                         None, {}, {}, -1, Some(call.asked), qs)
                      ELSE QueryCallback("getPageByFilter", call.c, NoError,
                                         Some(call.items), call.rows, withVia(K),
                                         Cardinality(K), Some(call.asked), qs)
        /\ calls' = [calls EXCEPT ![i] = Idle]
        /\ UNCHANGED <<bucket, nextCas>>

\* getCountByFilter(correlationId, filter, callback)
GetCountByFilter(c) ==
    \E filter \in Filters, fail \in FailChoices :
        /\ Account(TRUE)
        /\ LET where == collectionFilter(c, filter)
               K == matching(where)
               qs == <<CountQuery(where, ~fail)>>
           IN last' = IF fail
                      THEN QueryCallback("getCountByFilter", c, DRIVER_ERROR,
                                         None, {}, {}, -1, None, qs)
                      ELSE QueryCallback("getCountByFilter", c, NoError,
                                         None, {}, withVia(K), Cardinality(K), None, qs)
        /\ UNCHANGED <<bucket, nextCas, calls>>

\* The WHERE clause of getListByFilter, getOneRandom and deleteByFilter: the
\* caller's filter as it is, no collection filter added.
callerFilter(filter) == [c |-> None, key |-> filter]

\* A row of a SELECT COUNT(*) result: { "$1": n }
CountRow(n) == [count |-> n]

\* JavaScript values of getOneRandom's count: a number or an object.
Num(n) == [t |-> "num", v |-> n]
Obj(o) == [t |-> "obj", v |-> o]
NaN == [t |-> "NaN", v |-> 0]

\* let count = counts != null ? counts[0] : 0
firstCount(counts) == IF counts # None THEN Obj(counts[1][1]) ELSE Num(0)

\* count == 0: an object is not loosely equal to 0
isZero(count) == count.t = "num" /\ count.v = 0

\* Math.trunc(Math.random() * count): NaN for an object
randomSkips(count) ==
    IF count.t = "num" THEN { Num(k) : k \in 0..(count.v - 1) } ELSE {NaN}

\* getOneRandom(correlationId, filter, callback): the count query
GetOneRandom(c) ==
    \E i \in 1..MaxCalls, filter \in Filters, fail \in FailChoices :
        /\ FreeSlot(i)
        /\ Account(TRUE)
        /\ LET where == callerFilter(filter)
               K == matching(where)
               q == CountQuery(where, ~fail)
               counts == IF fail THEN None ELSE Some(<<CountRow(Cardinality(K))>>)
               count == firstCount(counts)
           IN IF fail \/ isZero(count)
              THEN /\ last' = QueryCallback("getOneRandom", c,
                                            IF fail THEN DRIVER_ERROR ELSE NoError,
                                            None, {},
                                            IF fail THEN {} ELSE withVia(K),
                                            IF fail THEN -1 ELSE Cardinality(K),
                                            None, <<q>>)
                   /\ UNCHANGED calls
              ELSE \E skip \in randomSkips(count) :
                      /\ calls' = [calls EXCEPT ![i] =
                            [op |-> "getOneRandom", c |-> c, where |-> where,
                             skip |-> skip, counted |-> withVia(K), queries |-> <<q>>]]
                      /\ UNCHANGED last
        /\ UNCHANGED <<bucket, nextCas>>

\* The rows the second statement of getOneRandom, SELECT COUNT(*) ... OFFSET
\* skip LIMIT 1, may return: the count row after an offset of 0, no row after
\* a larger one; the server's reading of OFFSET NaN is not known.
countRows(where, skip) ==
    LET row == <<CountRow(Cardinality(matching(where)))>>
    IN IF skip = NaN THEN {row, <<>>}
       ELSE IF skip.v = 0 THEN {row} ELSE {<<>>}

\* getOneRandom: the callback of the second query, which passes no error on
\* and the first of the converted rows.
GetOneRandomSecond ==
    \E i \in 1..MaxCalls, fail \in FailChoices :
        /\ calls[i].op = "getOneRandom"
        /\ Account(FALSE)
        /\ LET call == calls[i]
               q == Query("count", call.where, call.skip, 1, ~fail)
               qs == Append(call.queries, q)
           IN \E rows \in (IF fail THEN {<<>>} ELSE countRows(call.where, call.skip)) :
                 last' = QueryCallback("getOneRandom", call.c, NoError,
                                       IF rows = <<>> THEN None
                                       ELSE Some(convertToPublic(rows[1])),
                                       {}, call.counted, Cardinality(call.counted),
                                       None, qs)
        /\ calls' = [calls EXCEPT ![i] = Idle]
        /\ UNCHANGED <<bucket, nextCas>>

\* getListByFilter(correlationId, filter, sort, select, callback)
GetListByFilter(c) ==
    \E filter \in Filters, fail \in FailChoices :
        /\ Account(TRUE)
        /\ LET where == callerFilter(filter)
               K == matching(where)
               qs == <<Query("select", where, -1, -1, ~fail)>>
           IN last' = IF fail
                      THEN QueryCallback("getListByFilter", c, DRIVER_ERROR,
                                         None, {}, {}, -1, None, qs)
                      ELSE QueryCallback("getListByFilter", c, NoError,
                                         Some(publicRows(K)), withVia(K), {}, -1,
                                         None, qs)
        /\ UNCHANGED <<bucket, nextCas, calls>>

\* deleteByFilter(correlationId, filter, callback): DELETE FROM bucket
\* [WHERE filter]; rows of the callback are the documents deleted.
DeleteByFilter(c) ==
    \E filter \in Filters, fail \in FailChoices :
        /\ Account(TRUE)
        /\ LET where == callerFilter(filter)
               K == IF fail THEN {} ELSE matching(where)
               qs == <<Query("delete", where, -1, -1, ~fail)>>
           IN /\ Commit([k \in DOMAIN bucket \ K |-> bucket[k]])
              /\ last' = QueryCallback("deleteByFilter", c,
                                       IF fail THEN DRIVER_ERROR ELSE NoError,
                                       None, withVia(K), {}, -1, None, qs)
        /\ UNCHANGED calls

\* The callback of getListByIds: arg holds the ids asked for, seen the error
\* of each id's key as getMulti reported it (NoError for a value read) and
\* the id whose result came first in the results, rows the documents read.
ListCallback(c, err, data, ids, results, first, rows) ==
    [op |-> "getListByIds", c |-> c, id |-> NULL, err |-> err, data |-> data,
     arg |-> Some(ids), seen |-> Some([results |-> results, first |-> first]),
     before |-> None, rows |-> rows, counted |-> {}, total |-> -1,
     unsettled |-> {}, queries |-> <<>>]

\* A mutant of batchError: the error of the first result whenever a key failed.
batchErrorOfAny(count, n, first) ==
    IF count > 0 /\ first \notin {NoError, KEY_ENOENT} THEN first ELSE NoError

\* getListByIds: the error is looked for only when every key failed, in the
\* first result, and key-not-found is ignored.
batchError(count, n, first) ==
    IF count > 0 /\ count = n /\ first \notin {NoError, KEY_ENOENT} THEN first
    ELSE NoError

\* getListByIds(correlationId, ids, callback): bucket.getMulti and its
\* callback; failed are the ids whose key fails for a reason of the driver's.
GetListByIds(c) ==
    \E ids \in SUBSET Ids \ {{}}, failed \in SUBSET Ids :
        /\ failed \subseteq ids
        /\ Account(TRUE)
        /\ \E first \in ids :
              LET key(id) == generateBucketId(c, id)
                  results == [id \in ids |->
                                IF id \in failed THEN DRIVER_ERROR
                                ELSE IF key(id) \in DOMAIN bucket THEN NoError
                                ELSE KEY_ENOENT]
                  count == Cardinality({id \in ids : results[id] # NoError})
                  err == batchError(count, Cardinality(ids), results[first])
                  R == { key(id) : id \in {x \in ids : results[x] = NoError} }
              IN last' = IF err # NoError
                         THEN ListCallback(c, err, None, ids, results, first, {})
                         ELSE ListCallback(c, NoError, Some(publicRows(R)), ids,
                                           results, first, withVia(R))
        /\ UNCHANGED <<bucket, nextCas, calls>>

(***************************************************************************)
(* Part 3: CouchbaseConnection and the lifecycle of CouchbasePersistence   *)
(***************************************************************************)

\* CouchbaseConnection.open() calls in flight at a time.
MaxOpening == 2

\* Lifecycle calls (configure, setReferences, unsetReferences, open, close)
\* of a behaviour.
MaxLifeOps == 3

\* The Connection found in the references (owned by another component) and
\* the Connections the persistence may construct.
SharedConn == "shared"
OwnConns == {"own1", "own2"}
ConnIds == {SharedConn} \cup OwnConns

\* options.auto_create / options.auto_index
Options == [auto_create : BOOLEAN, auto_index : BOOLEAN]

\* _defaultConfig: options.auto_create false, options.auto_index true
DefaultOptions == [auto_create |-> FALSE, auto_index |-> TRUE]

\* A Connection after construction; popens and pcloses are history: the
\* open() and close() calls the persistence made on it;
\* connected holds the bucket handles that openBucket gave and that neither
\* failed to connect nor were disconnected.
NewConnection(opts) ==
    [opts |-> opts, cluster |-> None, bucket |-> None, gen |-> 0,
     popens |-> 0, pcloses |-> 0, connected |-> {}]

NotOpening == [step |-> "idle"]

\* CouchbaseConnection.isOpen
connIsOpen(c) == c.cluster # None

\* Whether an open() of the Connection is in flight.
IsOpening(id) == \E i \in 1..MaxOpening : opening[i].step # "idle" /\ opening[i].conn = id

\* Closed, Opening or Open, as the state machine of the Connection names them.
ConnState(cs, op, id) ==
    IF \E i \in 1..MaxOpening : op[i].step # "idle" /\ op[i].conn = id THEN "Opening"
    ELSE IF cs[id].cluster # None /\ cs[id].bucket # None THEN "Open"
    ELSE "Closed"

\* A callback of a Connection's open() or close(): the error, the handles and
\* isOpen() of the Connection at that moment, and the call that ends (the
\* steps it issued, the outcome of its bucket creation, the auto_index it
\* read, the bucket handle it opened).
ConnCallback(op, id, caller, err, c, call) ==
    [op |-> op, conn |-> id, caller |-> caller, err |-> err,
     cluster |-> c.cluster, bucket |-> c.bucket, isOpen |-> connIsOpen(c),
     connected |-> c.connected, call |-> call]

\* A callback of the persistence's open() or close(): the error, the
\* Connection it referred to and whether it owned it, the state, isOpen() and
\* bucket handle of that Connection at that moment, the handles the
\* persistence held then, whether it was open when the call was made, and
\* whether it referred to no Connection then, and the Connection whose open()
\* the call waited for (NULL if it waited for none).
PersistenceCallback(op, err, ref, local, state, handles, wasOk, noref, via) ==
    [op |-> op, err |-> err, conn |-> ref, local |-> local, state |-> state[1],
     connOpen |-> state[2], connBucket |-> state[3],
     handles |-> handles, wasOk |-> wasOk, noref |-> noref, via |-> via]

NoHandles == [cluster |-> None, bucket |-> None, query |-> FALSE]

LInit ==
    /\ connObj = [id \in ConnIds |-> NewConnection(DefaultOptions)]
    /\ opening = [i \in 1..MaxOpening |-> NotOpening]
    /\ pconn = NULL
    /\ plocal = FALSE
    /\ popened = FALSE
    /\ phandles = NoHandles
    /\ pconfig = None
    /\ popenOk = FALSE
    /\ plast = PersistenceCallback("none", NoError, NULL, FALSE, <<"Closed", FALSE, None>>,
                                   NoHandles, FALSE, FALSE, NULL)
    /\ clast = ConnCallback("none", NULL, NULL, NoError, NewConnection(DefaultOptions),
                               NotOpening)
    /\ lops = 0

\* The bookkeeping of a lifecycle step: it is a call (counted) or a callback,
\* and the resolver and the bucket stand by.
LifeStep(call) ==
    /\ UNCHANGED <<rvars, storeVars>>
    /\ call => lops < MaxLifeOps
    /\ lops' = IF call THEN lops + 1 ELSE lops

\* The state of the Connection the persistence refers to, "Closed" when it
\* refers to none.
RefState(cs, op) ==
    IF pconn = NULL THEN <<"Closed", FALSE, None>>
    ELSE <<ConnState(cs, op, pconn), connIsOpen(cs[pconn]), cs[pconn].bucket>>

\* A mutant of OpenCurl: NO_CONNECTION also when open() was called without
\* a Connection.
OpenCurlMissing(err, cs, op, noref, via) ==
    LET e1 == IF err = NoError /\ (pconn = NULL \/ noref) THEN "NO_CONNECTION" ELSE err
        e2 == IF e1 = NoError /\ ~connIsOpen(cs[pconn]) THEN "CONNECT_FAILED" ELSE e1
    IN /\ popened' = FALSE
       /\ phandles' = IF e2 = NoError
                      THEN [cluster |-> cs[pconn].cluster,
                            bucket |-> cs[pconn].bucket, query |-> TRUE]
                      ELSE phandles
       /\ popenOk' = (popenOk \/ e2 = NoError)
       /\ plast' = PersistenceCallback("open", e2, pconn, plocal, RefState(cs, op),
                                       phandles', popenOk, noref, via)

\* openCurl(err) of CouchbasePersistence.open, given the Connections and the
\* open() calls in flight as the calling step leaves them; noref tells that
\* the persistence referred to no Connection when open() was called.
OpenCurl(err, cs, op, noref, via) ==
    LET e1 == IF err = NoError /\ pconn = NULL THEN "NO_CONNECTION" ELSE err
        e2 == IF e1 = NoError /\ ~connIsOpen(cs[pconn]) THEN "CONNECT_FAILED" ELSE e1
    IN /\ popened' = FALSE
       /\ phandles' = IF e2 = NoError
                      THEN [cluster |-> cs[pconn].cluster,
                            bucket |-> cs[pconn].bucket, query |-> TRUE]
                      ELSE phandles
       /\ popenOk' = (popenOk \/ e2 = NoError)
       /\ plast' = PersistenceCallback("open", e2, pconn, plocal, RefState(cs, op),
                                       phandles', popenOk, noref, via)

\* closeCurl(err) of CouchbasePersistence.close
CloseCurl(err, cs, wasOk) ==
    /\ popened' = FALSE
    /\ phandles' = NoHandles
    /\ plast' = PersistenceCallback("close", err, pconn, plocal, RefState(cs, opening),
                                    phandles', wasOk, FALSE, NULL)

\* A mutant of afterFailure: the handles are left as they are.
afterFailureKeep(c) == c

\* CouchbaseConnection.open, final callback of async.series on an error:
\* this._connection = null; this._bucket = null
afterFailure(c) == [c EXCEPT !.cluster = None, !.bucket = None]

\* CouchbaseConnection.open calls its callback: the call in slot i is over,
\* and the openCurl of a persistence that made the call runs.
Finish(i, call, err, cs) ==
       /\ connObj' = cs
       /\ opening' = [opening EXCEPT ![i] = NotOpening]
       /\ clast' = ConnCallback("open", call.conn, call.caller, err, cs[call.conn], call)
       /\ IF call.caller = "persistence"
          THEN OpenCurl(err, cs, opening', call.noref, call.conn)
          ELSE UNCHANGED <<popened, phandles, popenOk, plast>>
       /\ UNCHANGED <<pconn, plocal, pconfig>>

\* A TypeError thrown inside a driver callback (a handle the callback uses
\* was set to null by a close() or a failed open() in between): the open()
\* call never calls back.
Throw(i, call) ==
       /\ opening' = [opening EXCEPT ![i] = NotOpening]
       /\ clast' = ConnCallback("throw", call.conn, call.caller, "TypeError",
                                connObj[call.conn], call)
       /\ UNCHANGED <<connObj, pconn, plocal, popened, phandles, pconfig, popenOk, plast>>

\* The open() call issues the driver request of its next step.
Issue(call, step) == [call EXCEPT !.step = step, !.did = Append(@, step)]

\* No callback yet: the open() call in slot i moves on to its next step.
Proceed(i, call, cs) ==
    /\ connObj' = cs
    /\ opening' = [opening EXCEPT ![i] = call]
    /\ UNCHANGED <<pconn, plocal, popened, phandles, pconfig, popenOk, plast, clast>>

\* this._bucket = this._connection.openBucket(this._bucketName, ...)
openBucket(cs, id) ==
    [cs EXCEPT ![id] = [@ EXCEPT !.bucket = Some(cs[id].gen + 1), !.gen = @ + 1,
                                 !.connected = @ \cup {cs[id].gen + 1}]]

\* The open() call issues openBucket and remembers the handle it got.
IssueOpenBucket(call, cs) ==
    [Issue(call, "open") EXCEPT !.handle = Some(cs[call.conn].gen + 1)]

\* this._connection = new couchbase.Cluster(connection.uri)
newCluster(cs, id) ==
    [cs EXCEPT ![id] = [@ EXCEPT !.cluster = Some(cs[id].gen + 1), !.gen = @ + 1]]

\* CouchbaseConnection.open: callback of _connectionResolver.resolve
ConnResolved ==
    \E i \in 1..MaxOpening, ok \in BOOLEAN :
        /\ opening[i].step = "resolve"
        /\ LifeStep(FALSE)
        /\ LET id == opening[i].conn
               c == connObj[id]
               withCluster == newCluster(connObj, id)
           IN IF ~ok THEN Finish(i, opening[i], "RESOLVE_FAILED", connObj)
              ELSE IF c.opts.auto_create
              THEN Proceed(i, Issue(opening[i], "create"), withCluster)
              ELSE Proceed(i, IssueOpenBucket(opening[i], withCluster),
                           openBucket(withCluster, id))

\* A mutant of abortsOpen: no outcome of the bucket creation ends open().
abortsNever(outcome) == FALSE

\* The createBucket callback passes its error on unless the error says that
\* the bucket exists already.
abortsOpen(outcome) == outcome = "failed"

\* CouchbaseConnection.open: callback of manager().createBucket (and the
\* timer that follows a creation), then openBucket
ConnBucketCreated ==
    \E i \in 1..MaxOpening, outcome \in {"created", "exists", "failed"} :
        /\ opening[i].step = "create"
        /\ LifeStep(FALSE)
        /\ LET id == opening[i].conn
               call == [opening[i] EXCEPT !.made = outcome,
                                          !.newBucket = (outcome = "created")]
           IN IF abortsOpen(outcome)
              THEN Finish(i, call, "CREATE_FAILED",
                          [connObj EXCEPT ![id] = afterFailure(@)])
              ELSE IF connObj[id].cluster = None THEN Throw(i, call)
              ELSE Proceed(i, IssueOpenBucket(call, connObj), openBucket(connObj, id))

\* The handle of a failed openBucket is not connected.
neverConnected(c, h) == [c EXCEPT !.connected = @ \ {h[1]}]

\* The index step returns without a request: if (!newBucket && !autoIndex)
skipsIndex(newBucket, autoIndex) == ~newBucket /\ ~autoIndex

\* CouchbaseConnection.open: callback of openBucket, then createPrimaryIndex
ConnBucketOpened ==
    \E i \in 1..MaxOpening, ok \in BOOLEAN :
        /\ opening[i].step = "open"
        /\ LifeStep(FALSE)
        /\ LET id == opening[i].conn
               c == connObj[id]
               call == [opening[i] EXCEPT !.autoIndex = c.opts.auto_index]
           IN IF ~ok
              THEN Finish(i, opening[i], "CONNECT_FAILED",
                          [connObj EXCEPT ![id] = afterFailure(neverConnected(@, opening[i].handle))])
              ELSE IF skipsIndex(call.newBucket, call.autoIndex)
              THEN Finish(i, call, NoError, connObj)
              ELSE IF c.bucket = None THEN Throw(i, call)
              ELSE Proceed(i, Issue(call, "index"), connObj)

\* CouchbaseConnection.open: callback of createPrimaryIndex
ConnIndexCreated ==
    \E i \in 1..MaxOpening, ok \in BOOLEAN :
        /\ opening[i].step = "index"
        /\ LifeStep(FALSE)
        /\ LET id == opening[i].conn
           IN IF ok THEN Finish(i, opening[i], NoError, connObj)
              ELSE Finish(i, opening[i], "INDEX_FAILED",
                          [connObj EXCEPT ![id] = afterFailure(@)])

\* CouchbaseConnection.open(correlationId, callback) called in slot i
StartOpening(i, id, caller, noref) ==
    [opening EXCEPT ![i] = [step |-> "resolve", conn |-> id, caller |-> caller,
                            newBucket |-> FALSE, noref |-> noref, did |-> <<>>,
                            made |-> "none", autoIndex |-> FALSE, handle |-> None]]

FreeOpening(i) == opening[i] = NotOpening /\ \A j \in 1..(i - 1) : opening[j] # NotOpening

\* CouchbaseConnection.close: the bucket held is disconnected and the
\* handles are dropped
closed(c) ==
    [c EXCEPT !.cluster = None, !.bucket = None,
              !.connected = IF c.bucket = None THEN @ ELSE @ \ {c.bucket[1]}]

\* The owner of the shared Connection configures it.
OwnerConfigure ==
    \E o \in Options :
        /\ LifeStep(TRUE)
        /\ connObj' = [connObj EXCEPT ![SharedConn] = [@ EXCEPT !.opts = o]]
        /\ UNCHANGED <<opening, pconn, plocal, popened, phandles, pconfig, popenOk,
                       plast, clast>>

\* The owner of the shared Connection opens it.
OwnerOpen ==
    \E i \in 1..MaxOpening :
        /\ FreeOpening(i)
        /\ LifeStep(TRUE)
        /\ opening' = StartOpening(i, SharedConn, "owner", FALSE)
        /\ UNCHANGED <<connObj, pconn, plocal, popened, phandles, pconfig, popenOk,
                       plast, clast>>

\* The owner of the shared Connection closes it.
OwnerClose ==
    /\ LifeStep(TRUE)
    /\ connObj' = [connObj EXCEPT ![SharedConn] = closed(@)]
    /\ clast' = ConnCallback("close", SharedConn, "owner", NoError, connObj'[SharedConn],
                                 NotOpening)
    /\ UNCHANGED <<opening, pconn, plocal, popened, phandles, pconfig, popenOk, plast>>

\* A Connection object that was never used: what new CouchbaseConnection()
\* gives.
Fresh(id) ==
    /\ id \in OwnConns /\ id # pconn
    /\ connObj[id].gen = 0 /\ connObj[id].popens = 0
    /\ ~IsOpening(id)

CanCreate == \E id \in OwnConns : Fresh(id)

NewId == IF Fresh("own1") THEN "own1" ELSE "own2"

\* createConnection(): a new Connection, configured when the persistence is
createConnection(cs) ==
    [cs EXCEPT ![NewId] = NewConnection(IF pconfig # None THEN pconfig[1]
                                        ELSE DefaultOptions)]

\* A mutant of localAfterSetReferences: the persistence takes every
\* Connection for its own.
localAlways(found) == TRUE

\* setReferences: _localConnection after the lookup of the Connection
localAfterSetReferences(found) == ~found

\* configure(config)
PConfigure ==
    \E o \in Options :
        /\ LifeStep(TRUE)
        /\ pconfig' = Some(o)
        /\ UNCHANGED <<connObj, opening, pconn, plocal, popened, phandles, popenOk,
                       plast, clast>>

\* setReferences(references): found tells whether the references hold a
\* Connection.
PSetReferences ==
    \E found \in BOOLEAN :
        /\ LifeStep(TRUE)
        /\ found \/ CanCreate
        /\ pconn' = IF found THEN SharedConn ELSE NewId
        /\ connObj' = IF found THEN connObj ELSE createConnection(connObj)
        /\ plocal' = localAfterSetReferences(found)
        /\ UNCHANGED <<opening, popened, phandles, pconfig, popenOk, plast, clast>>

\* unsetReferences()
PUnsetReferences ==
    /\ LifeStep(TRUE)
    /\ pconn' = NULL
    /\ UNCHANGED <<connObj, opening, plocal, popened, phandles, pconfig, popenOk,
                   plast, clast>>

\* open(correlationId, callback)
POpen ==
    /\ LifeStep(TRUE)
    /\ IF popened
       THEN /\ plast' = PersistenceCallback("open", NoError, pconn, plocal,
                                            RefState(connObj, opening), phandles,
                                            popenOk, pconn = NULL, NULL)
            /\ UNCHANGED <<connObj, opening, pconn, plocal, popened, phandles,
                           pconfig, popenOk, clast>>
       ELSE LET create == pconn = NULL
                ref == IF create THEN NewId ELSE pconn
                local == create \/ plocal
                cs == IF create THEN createConnection(connObj) ELSE connObj
            IN /\ create => CanCreate
               /\ pconn' = ref
               /\ plocal' = local
               /\ IF local
                  THEN \E i \in 1..MaxOpening :
                          /\ FreeOpening(i)
                          /\ opening' = StartOpening(i, ref, "persistence", create)
                          /\ connObj' = [cs EXCEPT ![ref] = [@ EXCEPT !.popens = @ + 1]]
                          /\ UNCHANGED <<popened, phandles, popenOk, plast>>
                  ELSE /\ OpenCurl(NoError, cs, opening, create, NULL)
                       /\ connObj' = cs
                       /\ UNCHANGED opening
               /\ UNCHANGED <<pconfig, clast>>

\* close(correlationId, callback)
PClose ==
    /\ LifeStep(TRUE)
    /\ popenOk' = FALSE
    /\ IF ~popened
       THEN /\ plast' = PersistenceCallback("close", NoError, pconn, plocal,
                                            RefState(connObj, opening), phandles,
                                            popenOk, FALSE, NULL)
            /\ UNCHANGED <<connObj, popened, phandles, clast>>
       ELSE IF pconn = NULL
       THEN /\ plast' = PersistenceCallback("close", "NO_CONNECTION", pconn, plocal,
                                            RefState(connObj, opening), phandles,
                                            popenOk, FALSE, NULL)
            /\ UNCHANGED <<connObj, popened, phandles, clast>>
       ELSE IF plocal
       THEN /\ connObj' = [connObj EXCEPT ![pconn] =
                              [closed(@) EXCEPT !.pcloses = @ + 1]]
            /\ clast' = ConnCallback("close", pconn, "persistence", NoError,
                                     connObj'[pconn], NotOpening)
            /\ CloseCurl(NoError, connObj', popenOk)
       ELSE /\ CloseCurl(NoError, connObj, popenOk)
            /\ UNCHANGED <<connObj, clast>>
    /\ UNCHANGED <<opening, pconn, plocal, pconfig>>

\* The persistence and its Connections, with the owner of the shared one.
LifeNext ==
    \/ PConfigure
    \/ PSetReferences
    \/ PUnsetReferences
    \/ POpen
    \/ PClose
    \/ OwnerConfigure
    \/ OwnerOpen
    \/ OwnerClose
    \/ ConnResolved
    \/ ConnBucketCreated
    \/ ConnBucketOpened
    \/ ConnIndexCreated

Init == RInit /\ SInit /\ LInit

\* Key operations of the persistences of one bucket, in any interleaving.
CrudNext ==
    \/ \E c \in Collections : Create(c)
    \/ \E c \in Collections : Set(c)
    \/ \E c \in Collections : Update(c)
    \/ \E c \in Collections : GetOneById(c)
    \/ \E c \in Collections : UpdatePartiallyGet(c)
    \/ UpdatePartiallyReplace
    \/ \E c \in Collections : DeleteByIdGet(c)
    \/ DeleteByIdRemove

\* create / set / update and the collection-scoped queries.
QueryNext ==
    \/ \E c \in Collections : Create(c)
    \/ \E c \in Collections : Set(c)
    \/ \E c \in Collections : Update(c)
    \/ \E c \in Collections : GetPageByFilter(c)
    \/ GetPageByFilterCount
    \/ \E c \in Collections : GetCountByFilter(c)

(***************************************************************************)
(* Claims about the key operations (SpecCrud) and the queries (SpecQuery)  *)
(***************************************************************************)

\* The step is a callback of an operation.
CalledBack == last' # last

\* The driver call of the step did not fail for a reason of the driver's own.
DriverWorked == last'.err # DRIVER_ERROR

\* The generated storage keys of two different collections never coincide.
DistinctKeys ==
    \A c1, c2 \in Collections, i1, i2 \in Ids :
        c1 # c2 => generateBucketId(c1, i1) # generateBucketId(c2, i2)

\* C5: storage keys are collision-free across collections, so a key
\* operation through one collection never addresses a record that was
\* stored through another.
C5_CollisionFree ==
    (/\ last.op \in {"getOneById", "set", "update", "deleteById"}
     /\ last.before # None)
        => DistinctKeys /\ last.before[1].via = last.c

C5_Collision ==
    /\ last.op = "getOneById"
    /\ last.c = "users" /\ last.id = "1"
    /\ last.err = NoError
    /\ last.data # None /\ last.data[1].id = "s1"
    /\ last.seen[1].via = "user"

C7_RoundTrip ==
    [][(/\ last.op = "create" /\ last.err = NoError
        /\ CalledBack /\ DriverWorked
        /\ last'.op = "getOneById" /\ last'.c = last.c /\ last'.id = last.id)
       => /\ last'.err = NoError
          /\ last'.data # None
          /\ last'.data = last.arg
          /\ last.data = last.arg
          /\ "_c" \notin DOMAIN last.data[1]
          /\ "_c" \notin DOMAIN last'.data[1]
          /\ last'.seen # None
          /\ "_c" \in DOMAIN last'.seen[1].value
          /\ last'.seen[1].value["_c"] = last.c]_vars

C7_Witness ==
    /\ last.op = "getOneById"
    /\ last.err = NoError
    /\ last.data # None
    /\ last.seen[1].by = "create" /\ last.seen[1].via = last.c
    /\ last.data[1].id = last.id
    /\ ops = 2

\* The step is the callback of a deleteById (of its read when seen is
\* None, of its remove otherwise) or of a getOneById for the id of the
\* deleteById that called back last.
SameId == last'.c = last.c /\ last'.id = last.id

\* C8 as stated: of the deleteById calls for a created id one only returns
\* the record, and a getOneById that starts after a deleteById called back
\* returns null with no error.
C8_Original ==
    [][(/\ last.op = "deleteById" /\ last.err = NoError
        /\ CalledBack /\ DriverWorked /\ SameId)
       => /\ (last'.op = "deleteById" /\ last.data # None) => last'.data = None
          /\ last'.op = "getOneById" => last'.data = None /\ last'.err = NoError]_vars

\* C8 as amended: a deleteById whose read found the record returns it unless
\* its remove fails for a reason other than not-found, so the calls that read
\* the record before any of them removed it all return it; a deleteById that
\* starts after one returned the record returns no record, and a getOneById
\* that starts after a deleteById called back without error returns null
\* with no error.
C8_DeleteById ==
    [][(/\ CalledBack /\ DriverWorked)
       => /\ (last'.op = "deleteById" /\ last'.seen # None)
                => /\ last'.err = NoError
                   /\ last'.data = Some(convertToPublic(last'.seen[1].value))
                   /\ generateBucketId(last'.c, last'.id) \notin DOMAIN bucket'
          /\ (/\ last.op = "deleteById" /\ last.err = NoError /\ last.data # None
              /\ SameId /\ last'.op = "deleteById" /\ last'.seen = None)
                => last'.data = None
          /\ (/\ last.op = "deleteById" /\ last.err = NoError
              /\ SameId /\ last'.op = "getOneById")
                => last'.data = None /\ last'.err = NoError]_vars

C8_Witness ==
    /\ last.op = "deleteById"
    /\ last.err = NoError
    /\ last.data # None
    /\ last.seen # None /\ last.seen[1].by = "create"
    /\ last.before = None

\* C9: an updatePartially that reports success wrote over the very document
\* it read; one whose token no longer matches calls back with the driver's
\* error and no record, and the stored document stays as the other writer
\* left it.
C9_CompareAndSwap ==
    (last.op = "updatePartially" /\ last.seen # None) =>
        /\ last.err = NoError => last.before = last.seen
        /\ last.before # last.seen =>
              /\ last.err # NoError
              /\ last.data = None
              /\ stored(generateBucketId(last.c, last.id)) = last.before
        /\ (last.before # None /\ last.before # last.seen) =>
              last.err \in {KEY_EEXISTS, DRIVER_ERROR}

C9_Witness ==
    /\ last.op = "updatePartially"
    /\ last.seen # None /\ last.before # None
    /\ last.before[1].cas # last.seen[1].cas
    /\ last.before[1].by = "set"
    /\ last.err = KEY_EEXISTS
    /\ stored(generateBucketId(last.c, last.id)) = last.before

\* C10: a successful updatePartially changes only the fields its map names,
\* in the stored record and in the returned one: every other field, the id
\* and the stored collection marker keep their values.
C10_Frame ==
    (last.op = "updatePartially" /\ last.err = NoError /\ last.seen # None) =>
        LET old == last.seen[1].value
            new == bucket[generateBucketId(last.c, last.id)].value
            ret == last.data[1]
            map == last.arg[1]
        IN /\ DOMAIN new = DOMAIN old
           /\ \A f \in DOMAIN old \ DOMAIN map : new[f] = old[f]
           /\ \A f \in DOMAIN map : new[f] = map[f] /\ ret[f] = map[f]
           /\ \A f \in DOMAIN ret \ DOMAIN map : ret[f] = old[f]
           /\ DOMAIN ret = DOMAIN old \ {"_c"}

C10_MarkerChanged ==
    /\ last.op = "updatePartially" /\ last.err = NoError /\ last.seen # None
    /\ last.c = "users"
    /\ last.seen[1].value["_c"] = "user"
    /\ bucket[generateBucketId(last.c, last.id)].value["_c"] = "users"

\* A record with this id that was written through this collection is stored.
HasRecord(c, id) ==
    \E k \in DOMAIN bucket : bucket[k].via = c /\ bucket[k].value["id"] = id

\* C11: getOneById for an id of which the collection holds no record calls
\* back with null and no error, or with the driver's error when the read
\* failed for another reason than key-not-found.
C11_NotFound ==
    last.op = "getOneById" =>
        /\ last.err \in {NoError, DRIVER_ERROR}
        /\ last.err = DRIVER_ERROR => last.data = None
        /\ ~HasRecord(last.c, last.id) => last.data = None

C11_ForeignRecord ==
    /\ last.op = "getOneById"
    /\ ~HasRecord(last.c, last.id)
    /\ last.err = NoError
    /\ last.data # None /\ last.data[1].id # last.id

\* What holds in place of C11: getOneById for a storage key that holds no
\* document calls back with null and no error unless the read fails.
C11_KeyAbsent ==
    (last.op = "getOneById" /\ last.before = None) =>
        /\ last.data = None
        /\ last.err \in {NoError, DRIVER_ERROR}

C13_AfterAllSettled ==
    last.op = "deleteByIds" =>
        /\ last.unsettled = {}
        /\ last.err \in {NoError, DRIVER_ERROR}

C13_EarlyCallback ==
    /\ last.op = "deleteByIds"
    /\ last.err = DRIVER_ERROR
    /\ last.arg = Some({"1", "s1"})
    /\ last.unsettled # {}
    /\ \E i \in 1..MaxCalls : calls[i].op = "deleteByIds" /\ calls[i].called

\* What holds in place of C13: a successful deleteByIds calls back after
\* every remove has called back, a failing one on the first error.
C13_FirstError ==
    last.op = "deleteByIds" =>
        /\ last.err = NoError => last.unsettled = {}
        /\ last.err \in {NoError, DRIVER_ERROR}

\* ---------------------------------------------------------------------
\* Lifecycle claims, checked under SpecLife.

\* C14: isOpen() of the persistence is true exactly when an open() has
\* succeeded and no close() was called since.
C14_IsOpen == popened = popenOk

\* The case that refutes C14: open() called back without error, no close()
\* followed, and isOpen() is false.
C14_OpenedButNotOpen ==
    /\ plast.op = "open" /\ plast.err = NoError
    /\ popenOk /\ ~popened

\* What the code does keep about isOpen(): it is never true.
C14_NeverOpen == ~popened

\* C15: open() on a persistence that is already open does nothing: the
\* persistence asks no Connection to open again.
C15_OpenIsIdempotent ==
    [][popenOk => \A id \in ConnIds : connObj'[id].popens = connObj[id].popens]_vars

\* The case that refutes C15: an open() called back while the persistence was
\* already open, after the persistence had its own Connection open twice.
C15_OpenedAgain ==
    /\ plast.op = "open" /\ plast.wasOk /\ plast.local
    /\ plast.conn # NULL /\ connObj[plast.conn].popens >= 2
    /\ connObj[plast.conn].pcloses = 0

\* What the code does keep: every open() on a persistence that owns its
\* Connection starts an open of it, as many opens as the persistence asked
\* for are accounted to Connections it owns.
C15_EveryOpenOpens ==
    \A i \in 1..MaxOpening :
        opening[i] # NotOpening /\ opening[i].caller = "persistence" =>
            connObj[opening[i].conn].popens >= 1

\* C16: close() of an open persistence that owns its Connection closes the
\* Connection and drops the handles; with a borrowed Connection it drops the
\* handles only.
C16_CloseReleases ==
    plast.op = "close" /\ plast.wasOk /\ plast.err = NoError =>
        /\ plast.handles = NoHandles
        /\ plast.local /\ plast.conn # NULL => ~plast.connOpen

\* The case that refutes C16: close() of an open persistence called back
\* without error while its own Connection is open and the handles are held.
C16_CloseDidNothing ==
    /\ plast.op = "close" /\ plast.wasOk /\ plast.err = NoError
    /\ plast.local /\ plast.conn \in OwnConns
    /\ plast.state = "Open" /\ plast.connOpen
    /\ plast.handles # NoHandles

\* What the code does keep: the persistence closes no Connection at all.
C16_NothingClosed == \A id \in ConnIds : connObj[id].pcloses = 0

\* C17: the persistence never opens or closes a Connection it found in its
\* references; it opens and closes only Connections it constructed.
C17_BorrowedUntouched ==
    /\ connObj[SharedConn].popens = 0
    /\ connObj[SharedConn].pcloses = 0
    /\ \A i \in 1..MaxOpening :
          opening[i] # NotOpening /\ opening[i].caller = "persistence" =>
              opening[i].conn \in OwnConns

\* A case of C17: open() of the persistence succeeded on the Connection found
\* in the references, which its owner had opened.
C17_Witness ==
    /\ plast.op = "open" /\ plast.err = NoError
    /\ plast.conn = SharedConn /\ ~plast.local /\ plast.via = NULL
    /\ plast.state = "Open"

\* C18: open() with a borrowed Connection succeeds only when that Connection
\* is fully open, and then holds its bucket; while the Connection is closed or
\* still opening, open() fails with CONNECT_FAILED.
C18_BorrowedMustBeOpen ==
    plast.op = "open" /\ plast.via = NULL /\ plast.conn = SharedConn =>
        /\ plast.err = NoError =>
              /\ plast.state = "Open"
              /\ plast.connBucket # None
              /\ plast.handles.bucket = plast.connBucket
        /\ plast.state # "Open" => plast.err = "CONNECT_FAILED"

\* The case that refutes C18: open() succeeded on a borrowed Connection that
\* was still opening, its bucket not connected yet.
C18_OpenedWhileOpening ==
    /\ plast.op = "open" /\ plast.err = NoError
    /\ plast.via = NULL /\ ~plast.local /\ plast.conn = SharedConn
    /\ plast.state = "Opening" /\ plast.connOpen
    /\ plast.handles.bucket = plast.connBucket

\* What the code does keep: open() with a borrowed Connection fails with
\* CONNECT_FAILED exactly when isOpen() of that Connection is false.
C18_IsOpenDecides ==
    plast.op = "open" /\ plast.via = NULL /\ plast.conn = SharedConn =>
        (plast.err = "CONNECT_FAILED") = ~plast.connOpen

\* C19 as stated: open() of a persistence that refers to no Connection fails
\* with NO_CONNECTION.
C19_Original == plast.op = "open" /\ plast.noref => plast.err = "NO_CONNECTION"

\* C19, amended: open() of a persistence that refers to no Connection
\* constructs a Connection of its own and opens it; it fails with NO_CONNECTION
\* only if the reference is gone when that open completes.
C19_CreatesConnection ==
    /\ \A i \in 1..MaxOpening :
          opening[i] # NotOpening /\ opening[i].caller = "persistence"
            /\ opening[i].noref =>
              /\ opening[i].conn \in OwnConns
              /\ connObj[opening[i].conn].popens >= 1
    /\ plast.op = "open" /\ plast.noref =>
          /\ plast.err = "NO_CONNECTION" => plast.conn = NULL
          /\ plast.err = NoError => plast.conn # NULL /\ plast.connOpen

\* A case of C19: open() was called with no Connection reference and called
\* back without error, on a Connection the persistence owns.
C19_Witness ==
    /\ plast.op = "open" /\ plast.noref /\ plast.err = NoError
    /\ plast.local /\ plast.conn \in OwnConns
    /\ plast.handles # NoHandles

\* C20: after a failed open() of a Connection (bucket creation, bucket open or
\* index creation failed) the Connection is as never opened: no cluster, no
\* bucket, isOpen() false.
C20_FailedOpenResets ==
    clast.op = "open"
      /\ clast.err \in {"CREATE_FAILED", "CONNECT_FAILED", "INDEX_FAILED"} =>
        /\ clast.cluster = NewConnection(DefaultOptions).cluster
        /\ clast.bucket = NewConnection(DefaultOptions).bucket
        /\ ~clast.isOpen

\* A case of C20: the open of a Connection failed after its cluster had been
\* connected.
C20_Witness ==
    /\ clast.op = "open" /\ clast.err = "INDEX_FAILED"
    /\ clast.cluster = None /\ clast.bucket = None

\* The sequences of driver requests an open() call may have issued.
StepOrders ==
    {<<>>, <<"create">>, <<"create", "open">>, <<"create", "open", "index">>,
     <<"open">>, <<"open", "index">>}

\* An open() call of a Connection that is in flight.
InFlight(i) == opening[i] # NotOpening

\* The last callback ended an open() call of a Connection (by calling back or
\* by throwing).
CallEnded == clast.op \in {"open", "throw"}

\* C21: an open() issues its requests in the order create, open bucket,
\* create index; the bucket is opened only after the creation has finished
\* with success or with 'bucket already exists'; any other creation failure
\* ends open() with that error, no bucket open and no index creation issued.
C21_StepsInOrder ==
    /\ \A i \in 1..MaxOpening : InFlight(i) =>
          LET call == opening[i]
          IN /\ call.did \in StepOrders
             /\ call.step = "resolve" => call.did = <<>>
             /\ call.step # "resolve" => call.step = call.did[Len(call.did)]
             /\ call.step = "create" => call.made = "none"
             /\ call.did # <<>> /\ call.did[1] = "create" /\ call.step # "create" =>
                   call.made \in {"created", "exists"}
    /\ CallEnded =>
          /\ clast.call.did \in StepOrders
          /\ clast.call.made = "failed" =>
                /\ clast.op = "open" /\ clast.err = "CREATE_FAILED"
                /\ clast.call.did = <<"create">>
          /\ clast.err = "CREATE_FAILED" => clast.call.made = "failed"

\* A case of C21: an open() with auto_create that created the bucket, opened
\* it and created the index.
C21_Witness ==
    /\ clast.op = "open" /\ clast.err = NoError
    /\ clast.call.did = <<"create", "open", "index">>
    /\ clast.call.made = "created"

\* The open() call in slot i has its index creation pending.
IndexPending(i) == InFlight(i) /\ opening[i].step = "index"

\* The last callback ended an open() call whose bucket open had succeeded.
BucketWasOpened == clast.op = "open" /\ clast.err \in {NoError, "INDEX_FAILED"}

\* The call issued an index creation.
IssuedIndex(call) == \E k \in 1..Len(call.did) : call.did[k] = "index"

\* C22: an open() issues an index creation only when it created the bucket
\* itself and auto_index is set, and in no other combination of the two.
C22_IndexOnlyIfBoth ==
    /\ \A i \in 1..MaxOpening : IndexPending(i) =>
          opening[i].newBucket /\ opening[i].autoIndex
    /\ BucketWasOpened =>
          (IssuedIndex(clast.call) <=> clast.call.newBucket /\ clast.call.autoIndex)

\* The case that refutes C22: an open() that found its bucket existing (or
\* created none) issued an index creation.
C22_IndexOnExisting ==
    /\ BucketWasOpened /\ IssuedIndex(clast.call)
    /\ ~clast.call.newBucket /\ clast.call.autoIndex

\* What the code does keep: the index creation is issued when the open()
\* created the bucket or auto_index is set, and only then.
C22_IndexIfEither ==
    /\ \A i \in 1..MaxOpening : IndexPending(i) =>
          opening[i].newBucket \/ opening[i].autoIndex
    /\ BucketWasOpened =>
          (IssuedIndex(clast.call) <=> clast.call.newBucket \/ clast.call.autoIndex)

\* C23: isOpen() of a Connection is true exactly in state Open (false while
\* Closed and while an open() is in progress), and whenever it is true a
\* bucket handle is held.
C23_IsOpenIffOpen ==
    \A id \in ConnIds :
        /\ connIsOpen(connObj[id]) <=> ConnState(connObj, opening, id) = "Open"
        /\ connIsOpen(connObj[id]) => connObj[id].bucket # None

\* The case that refutes C23: isOpen() is true while the open() of the
\* Connection is waiting for its bucket creation, no bucket handle held.
C23_OpenWhileOpening ==
    \E i \in 1..MaxOpening :
        /\ InFlight(i) /\ opening[i].step = "create"
        /\ connIsOpen(connObj[opening[i].conn])
        /\ connObj[opening[i].conn].bucket = None

\* What the code does keep: with no open() in progress isOpen() tells Open
\* from Closed, and a Connection without cluster and bucket reports false.
C23_SettledIsOpen ==
    \A id \in ConnIds :
        /\ ~IsOpening(id) =>
              (connIsOpen(connObj[id]) <=> ConnState(connObj, opening, id) = "Open")
        /\ connObj[id].cluster = None => ~connIsOpen(connObj[id])

\* A bucket handle of the Connection that is connected and that no close()
\* can disconnect any more: the Connection holds another handle or none, and
\* no open() is still waiting for the handle to connect.
Leaked(id, h) ==
    /\ h \in connObj[id].connected
    /\ connObj[id].bucket # Some(h)
    /\ \A i \in 1..MaxOpening :
          ~(InFlight(i) /\ opening[i].step = "open" /\ opening[i].handle = Some(h))

\* C29: whenever open() of a Connection calls back with no error the
\* Connection is open and holds the bucket handle that open() opened, also
\* with a close() or another open() in between; and no connected bucket
\* handle is left that no close() disconnects.
C29_OpenMeansOpen ==
    /\ clast.op = "open" /\ clast.err = NoError =>
          /\ clast.isOpen
          /\ clast.bucket # None
          /\ clast.bucket = clast.call.handle
    /\ clast.op = "open" /\ clast.err = NoError =>
          \A h \in connObj[clast.conn].connected : ~Leaked(clast.conn, h)

\* Another case that refutes C29, if the driver reports the bucket open as
\* succeeded after the disconnect: an open() called back with no error on a
\* Connection that a close() had closed in between.
C29_OpenedButClosed ==
    /\ clast.op = "open" /\ clast.err = NoError
    /\ ~clast.isOpen /\ clast.bucket = None
    /\ clast.call.handle # None

\* The case that refutes C29: an open() called back with no error while
\* another open() had replaced its bucket handle, which stays connected while
\* the Connection holds the other one.
C29_LeakedHandle ==
    /\ clast.op = "open" /\ clast.err = NoError
    /\ \E h \in connObj[clast.conn].connected :
          Leaked(clast.conn, h) /\ connObj[clast.conn].bucket # None

\* What the code does keep: an open() that calls back with no error has had
\* its own bucket open succeed.
C29_OwnBucketOpened ==
    clast.op = "open" /\ clast.err = NoError =>
        /\ clast.call.handle # None
        /\ \E k \in 1..Len(clast.call.did) : clast.call.did[k] = "open"

\* C24: a paged query issues its count query only when a total is asked for
\* and only after its data query succeeded, with the WHERE clause of the data
\* query (collection filter and caller filter); a failed data query is
\* followed by no count query; without a total asked for one query is issued
\* and the page carries no total.
C24_CountAfterData ==
    /\ last.op = "getPageByFilter" =>
          LET qs == last.queries
          IN /\ Len(qs) \in {1, 2}
             /\ qs[1].kind = "select"
             /\ qs[1].where.c = Some(last.c)
             /\ Len(qs) = 2 <=> last.arg[1] /\ qs[1].ok
             /\ Len(qs) = 2 =>
                   /\ qs[2].kind = "count"
                   /\ qs[2].where = qs[1].where
             /\ ~last.arg[1] => last.total = -1
             /\ last.err = NoError <=> \A k \in 1..Len(qs) : qs[k].ok
             /\ last.err = NoError /\ last.arg[1] => last.total >= 0
    /\ \A i \in 1..MaxCalls : calls[i].op = "getPageByFilter" =>
          /\ calls[i].asked
          /\ Len(calls[i].queries) = 1 /\ calls[i].queries[1].ok

\* A case of C24: a paged query with a caller filter called back with a
\* total after its two queries.
C24_Witness ==
    /\ last.op = "getPageByFilter" /\ last.err = NoError
    /\ Len(last.queries) = 2
    /\ last.queries[2].where.key = "k1"
    /\ last.total >= 1

\* C25: getOneRandom counts the rows that match; with a count of zero it
\* calls back with null after that one query; otherwise it issues one more
\* query, for the matching records, with OFFSET k LIMIT 1 and 0 <= k < count.
C25_RandomSample ==
    last.op = "getOneRandom" /\ last.queries[1].ok =>
        LET n == Cardinality(last.counted)
            qs == last.queries
        IN /\ qs[1].kind = "count"
           /\ n = 0 => Len(qs) = 1 /\ last.data = None
           /\ n > 0 =>
                 /\ Len(qs) = 2
                 /\ qs[2].kind = "select"
                 /\ qs[2].where = qs[1].where
                 /\ qs[2].skip \in { Num(k) : k \in 0..(n - 1) }
                 /\ qs[2].take = 1

\* The case that refutes C25: no row matched, and getOneRandom issued a
\* second statement, a count with OFFSET NaN.
C25_SecondQueryOnEmpty ==
    /\ last.op = "getOneRandom" /\ last.queries[1].ok
    /\ last.counted = {}
    /\ Len(last.queries) = 2
    /\ last.queries[2].kind = "count" /\ last.queries[2].skip = NaN

\* What the code does keep: the first statement is a count with the caller's
\* filter, a second statement with LIMIT 1 follows exactly when the first
\* succeeded, and a failed count is called back with its error and no data.
C25_CountFirst ==
    last.op = "getOneRandom" =>
        LET qs == last.queries
        IN /\ qs[1].kind = "count" /\ qs[1].where.c = None
           /\ Len(qs) = 2 <=> qs[1].ok
           /\ Len(qs) = 2 => qs[2].where = qs[1].where /\ qs[2].take = 1
           /\ ~qs[1].ok => last.err = DRIVER_ERROR /\ last.data = None

QueryOps ==
    {"getPageByFilter", "getCountByFilter", "getListByFilter", "getOneRandom",
     "deleteByFilter"}

\* One of the statements the operation issued failed in the driver.
QueryFailed(cb) == \E k \in 1..Len(cb.queries) : ~cb.queries[k].ok

\* C26: a query primitive whose driver query fails, the first or the second
\* one, calls back with that error and with no data.
C26_ErrorsPassedOn ==
    last.op \in QueryOps /\ QueryFailed(last) =>
        last.err = DRIVER_ERROR /\ last.data = None

\* The case that refutes C26: the second query of getOneRandom failed and the
\* callback got no error.
C26_ErrorSwallowed ==
    /\ last.op = "getOneRandom"
    /\ Len(last.queries) = 2 /\ ~last.queries[2].ok
    /\ last.err = NoError

\* What the code does keep: every failure but that of getOneRandom's second
\* query is passed on, with no data; a callback with an error follows a
\* failed query.
C26_OtherErrorsPassedOn ==
    last.op \in QueryOps =>
        /\ QueryFailed(last) /\ ~(last.op = "getOneRandom" /\ Len(last.queries) = 2) =>
              last.err = DRIVER_ERROR /\ last.data = None
        /\ last.err # NoError => QueryFailed(last)

\* The ids of a getListByIds call whose key failed in the driver, and those
\* whose key was read.
FailedIds(cb) == { id \in cb.arg[1] : cb.seen[1].results[id] = DRIVER_ERROR }
ReadIds(cb) == { id \in cb.arg[1] : cb.seen[1].results[id] = NoError }

\* C27 as stated: getListByIds calls back with an error whenever a requested
\* key failed with an error other than key-not-found, and otherwise with no
\* error and the records of the requested ids that exist.
C27_Original ==
    last.op = "getListByIds" =>
        /\ FailedIds(last) # {} => last.err # NoError
        /\ FailedIds(last) = {} =>
              /\ last.err = NoError
              /\ DOMAIN last.data[1] = { generateBucketId(last.c, id) : id \in ReadIds(last) }

\* C27, amended: getListByIds calls back with an error only when every
\* requested key failed (not found or otherwise), and then exactly when the
\* first result holds an error other than key-not-found; in every other case
\* it calls back with no error and the public form of the documents read
\* under the keys of the requested ids, the keys that failed or hold nothing
\* being left out.
C27_AllFailed ==
    last.op = "getListByIds" =>
        LET res == last.seen[1].results
            first == last.seen[1].first
        IN /\ last.err # NoError <=>
                 /\ ReadIds(last) = {}
                 /\ res[first] = DRIVER_ERROR
           /\ last.err # NoError => last.err = res[first] /\ last.data = None
           /\ last.err = NoError =>
                 /\ DOMAIN last.data[1] =
                       { generateBucketId(last.c, id) : id \in ReadIds(last) }
                 /\ \A k \in DOMAIN last.data[1] :
                       /\ "_c" \notin DOMAIN last.data[1][k]
                       /\ k \in DOMAIN bucket
                       /\ last.data[1][k] = convertToPublic(bucket[k].value)

\* A case of C27: one key failed in the driver, the other was read, and the
\* callback got no error and the one record.
C27_Witness ==
    /\ last.op = "getListByIds" /\ last.err = NoError
    /\ FailedIds(last) # {} /\ ReadIds(last) # {}
    /\ DOMAIN last.data[1] # {}

\* The collection of the persistence whose driver call a step completes: the
\* one of the deleteByIds call that moved on, or else the one calling back.
Actor ==
    IF \E i \in 1..MaxCalls : calls[i].op = "deleteByIds" /\ calls'[i] # calls[i]
    THEN calls[CHOOSE i \in 1..MaxCalls :
                  calls[i].op = "deleteByIds" /\ calls'[i] # calls[i]].c
    ELSE last'.c

\* The step changes or removes the document stored under key k.
Touched(k) == k \notin DOMAIN bucket' \/ bucket'[k] # bucket[k]

\* C30: no step of create, set, update, updatePartially, deleteById,
\* deleteByIds or deleteByFilter through one collection changes or removes a
\* document that was written through another collection of the bucket.
C30_OtherCollectionsUntouched ==
    [][\A k \in DOMAIN bucket : bucket[k].via # Actor => ~Touched(k)]_vars

\* What the code keeps in place of C30: a document written through another
\* collection is changed or removed only by a deleteByFilter, or under a key
\* that an id of the acting collection maps to as well.
C30_ByFilterOrSharedKey ==
    [][\A k \in DOMAIN bucket :
          (bucket[k].via # Actor /\ Touched(k)) =>
              \/ last'.op = "deleteByFilter"
              \/ \E id \in Ids : k = generateBucketId(Actor, id)]_vars

\* A case against C30: a deleteByFilter through one collection has deleted a
\* document written through another.
C30_DeletedOthers ==
    /\ last.op = "deleteByFilter" /\ last.err = NoError
    /\ \E r \in last.rows : r[2] # last.c /\ r[1] \notin DOMAIN bucket

\* Every operation of an identifiable persistence that writes or deletes.
FrameNext ==
    \/ \E c \in Collections : Create(c)
    \/ \E c \in Collections : Set(c)
    \/ \E c \in Collections : Update(c)
    \/ \E c \in Collections : UpdatePartiallyGet(c)
    \/ UpdatePartiallyReplace
    \/ \E c \in Collections : DeleteByIdGet(c)
    \/ DeleteByIdRemove
    \/ \E c \in Collections : DeleteByIdsStart(c)
    \/ DeleteByIdsRemove
    \/ \E c \in Collections : DeleteByFilter(c)

\* create / set and every query primitive of the base persistence.
FilterNext ==
    \/ \E c \in Collections : Create(c)
    \/ \E c \in Collections : Set(c)
    \/ \E c \in Collections : GetPageByFilter(c)
    \/ GetPageByFilterCount
    \/ \E c \in Collections : GetCountByFilter(c)
    \/ \E c \in Collections : GetListByFilter(c)
    \/ \E c \in Collections : GetOneRandom(c)
    \/ GetOneRandomSecond
    \/ \E c \in Collections : DeleteByFilter(c)

\* create / set and the batch read.
ListNext ==
    \/ \E c \in Collections : Create(c)
    \/ \E c \in Collections : Set(c)
    \/ \E c \in Collections : GetListByIds(c)

\* create / set and the batch delete, in any interleaving.
BatchNext ==
    \/ \E c \in Collections : Create(c)
    \/ \E c \in Collections : Set(c)
    \/ \E c \in Collections : DeleteByIdsStart(c)
    \/ DeleteByIdsRemove

\* The resolver: configure, then one resolve().
SpecResolver == Init /\ [][RNext]_vars

SpecCrud == Init /\ [][CrudNext]_vars

SpecQuery == Init /\ [][QueryNext]_vars

SpecBatch == Init /\ [][BatchNext]_vars

SpecFilter == Init /\ [][FilterNext]_vars

SpecList == Init /\ [][ListNext]_vars

SpecFrame == Init /\ [][FrameNext]_vars

SpecLife == Init /\ [][LifeNext]_vars

====
